---- MODULE Spec2Model ----
(***************************************************************************)
(* Model of the two demo-data generators of dotloop-reporter:             *)
(*   generate_demo_data.py      (the "brokerage" script, script = "data") *)
(*   generate_demo_soldtest.py  (the "sold test" script, "soldtest")      *)
(*                                                                         *)
(* A datetime.date is the number of days since 1970-01-01; strftime is    *)
(* modelled by the proleptic Gregorian calendar conversion and produces    *)
(* the text the script emits.  A Python float holding a money amount is   *)
(* carried as an exact number of cents: every price is a multiple of 100, *)
(* so price * 0.03, price * 0.025, price * 0.01, price * 0.05 and          *)
(* total * 0.20 are whole cents and the two-decimal formatting of the      *)
(* float prints exactly that amount.                                      *)
(***************************************************************************)
EXTENDS Integers, Sequences, FiniteSets, TLC

VARIABLES
    script,     \* which of the two scripts runs: "data" or "soldtest"
    today,      \* datetime.date.today() of the run
    pc,         \* position of the script / of the call
    i,          \* loop index of the driver loop
    records,    \* the list the driver appends to
    lines,      \* rows written to the CSV file, header first
    draw,       \* the random draws of the last generate_record call
    locals,     \* local variables of generate_record at its return
    rec         \* the dict returned by the last generate_record call

vars == <<script, today, pc, i, records, lines, draw, locals, rec>>

---------------------------------------------------------------------------
(* Bounds of the model *)

\* how many values are taken at each end of a random.randint range
EdgeWidth == 1
\* number of records the driver generates in the model (350 / 400 in the scripts)
MaxRecords == 3

---------------------------------------------------------------------------
(* datetime.date arithmetic and strftime *)

\* days since 1970-01-01 of the civil date y-m-d
DaysFromCivil(y, m, d) ==
    LET yy  == IF m <= 2 THEN y - 1 ELSE y
        era == yy \div 400
        yoe == yy - era * 400
        mp  == IF m > 2 THEN m - 3 ELSE m + 9
        doy == (153 * mp + 2) \div 5 + d - 1
        doe == yoe * 365 + yoe \div 4 - yoe \div 100 + doy
    IN  era * 146097 + doe - 719468

\* year of the 400-year era of the day numbered doe in that era
YearOfEra(doe) ==
    (doe - doe \div 1460 + doe \div 36524 - doe \div 146096) \div 365

\* day of the year, counted from 1 March, of day doe of the era
DayOfYear(doe, yoe) == doe - (365 * yoe + yoe \div 4 - yoe \div 100)

\* month, counted from March = 0, of the day numbered doy
MonthFromMarch(doy) == (5 * doy + 2) \div 153

CivilOfMonth(era, yoe, doy, mp) ==
    LET m == IF mp < 10 THEN mp + 3 ELSE mp - 9
    IN  <<yoe + era * 400 + (IF m <= 2 THEN 1 ELSE 0), m,
          doy - (153 * mp + 2) \div 5 + 1>>

CivilOfDay(era, yoe, doy) == CivilOfMonth(era, yoe, doy, MonthFromMarch(doy))

CivilOfYear(era, doe, yoe) == CivilOfDay(era, yoe, DayOfYear(doe, yoe))

CivilOfEra(era, doe) == CivilOfYear(era, doe, YearOfEra(doe))

CivilFromMarch(zz) == CivilOfEra(zz \div 146097, zz % 146097)

\* <<year, month, day>> of the date z days after 1970-01-01
CivilFromDays(z) == CivilFromMarch(z + 719468)

Pad2(n) == IF n < 10 THEN "0" \o ToString(n) ELSE ToString(n)

Pad3(n) == IF n < 10 THEN "00" \o ToString(n)
           ELSE IF n < 100 THEN "0" \o ToString(n) ELSE ToString(n)

IsoText(c) == ToString(c[1]) \o "-" \o Pad2(c[2]) \o "-" \o Pad2(c[3])

UsText(c) == Pad2(c[2]) \o "/" \o Pad2(c[3]) \o "/" \o ToString(c[1])

\* date.strftime("%Y-%m-%d")
strftime_iso(z) == IsoText(CivilFromDays(z))

\* date.strftime("%m/%d/%Y")
strftime_us(z) == UsText(CivilFromDays(z))


---------------------------------------------------------------------------
(* Configuration of the brokerage script, generate_demo_data.py *)

AGENTS_data == <<"Sarah Miller", "James Wilson", "Emily Chen", "Michael Brown",
    "Jessica Davis", "David Martinez", "Jennifer Taylor", "Robert Anderson",
    "Lisa Thomas", "William Jackson", "Elizabeth White", "Christopher Harris",
    "Ashley Martin", "Matthew Thompson", "Amanda Garcia">>

LEAD_SOURCES_data == <<"Zillow", "Referral", "Open House", "Sphere of Influence",
    "Facebook Ads", "Realtor.com", "Walk-in", "Direct Mail">>

PROPERTY_TYPES_data == <<"Single Family", "Condo", "Townhouse", "Multi-Family", "Land">>

CITIES_data == <<"Atlanta", "Marietta", "Roswell", "Alpharetta", "Sandy Springs",
    "Decatur", "Smyrna", "Woodstock", "Kennesaw", "Lawrenceville">>

STATUSES_data == <<"Sold", "Sold", "Sold", "Sold", "Active Listings",
    "Active Listings", "Under Contract", "Under Contract", "Archived">>

\* street names as the words that address.split(" ") separates
street_names_data == << <<"Main", "St">>, <<"Oak", "Ave">>, <<"Maple", "Dr">>,
    <<"Pine", "Ln">>, <<"Cedar", "Blvd">>, <<"Elm", "St">>,
    <<"Washington", "Ave">>, <<"Park", "Pl">>, <<"Lakeview", "Dr">>,
    <<"Hillcrest", "Rd">> >>

END_DATE_data(t) == t + 90

\* START_DATE taken 450 days before today instead of 450 days before END_DATE
START_DATE_data_from_today(t) == t - 450

START_DATE_data(t) == END_DATE_data(t) - 450

---------------------------------------------------------------------------
(* Configuration of the sold-test script, generate_demo_soldtest.py *)

AGENTS_soldtest == <<"Sarah Miller", "James Wilson", "Emily Chen", "Michael Brown",
    "Jessica Davis", "David Martinez", "Jennifer Taylor", "Robert Anderson",
    "Lisa Thomas", "William Jackson", "Elizabeth White", "Christopher Harris",
    "Ashley Martin", "Matthew Thompson", "Amanda Garcia">>

LEAD_SOURCES_soldtest == <<"Zillow", "Referral", "Open House", "Sphere of Influence",
    "Facebook Ads", "Realtor.com", "Walk-in", "Direct Mail", "Past Client",
    "Agent Website">>

PROPERTY_TYPES_soldtest == <<"SingleFamily", "Condo", "Townhouse", "MultiFamily", "Land">>

CITIES_soldtest == <<"Boston", "Cambridge", "Somerville", "Brookline", "Newton",
    "Quincy", "Waltham", "Medford", "Malden", "Arlington">>

STATUSES_soldtest == <<"Sold", "Sold", "Sold", "Sold", "Active Listing",
    "Active Listing", "Under Contract", "Under Contract", "Archived">>

street_names_soldtest == <<"Beacon St", "Commonwealth Ave", "Boylston St",
    "Tremont St", "Washington St", "Massachusetts Ave", "Cambridge St",
    "Broadway", "Main St", "High St">>

END_DATE_soldtest(t) == t + 90

START_DATE_soldtest(t) == END_DATE_soldtest(t) - 450

---------------------------------------------------------------------------
(* Helpers shared by the two models *)

\* marks a random draw the executed branch does not make
NoDraw == -1

Range(s) == {s[k] : k \in DOMAIN s}

\* float * (num / den) on an amount of cents, i.e. (cents * num) \div den computed
\* without leaving 32 bits; the division is exact for every price drawn
Scale(cents, num, den) ==
    (cents \div den) * num + ((cents % den) * num) \div den

RECURSIVE Commas(_)
\* the "," grouping of the format specification ",.2f"
Commas(n) == IF n < 1000 THEN ToString(n)
             ELSE Commas(n \div 1000) \o "," \o Pad3(n % 1000)

\* random_date(start, end) with r the value random.randint(0, (end - start).days) returns
random_date_data(start, end, r) == start + r

random_date_soldtest(start, end, r) == start + r

---------------------------------------------------------------------------
(* generate_record of generate_demo_data.py, piece by piece *)

\* <<low, high>> of random.randint for the base price, in thousands
price_range_data(prop_type) ==
    IF prop_type = "Single Family" THEN <<350, 1500>>
    ELSE IF prop_type = "Condo" THEN <<200, 600>>
    ELSE IF prop_type = "Townhouse" THEN <<300, 750>>
    ELSE IF prop_type = "Multi-Family" THEN <<450, 1200>>
    ELSE IF prop_type = "Land" THEN <<50, 400>>
    ELSE <<300, 800>>

\* psych is the outcome of random.random() < 0.7
price_data(base_price, psych) ==
    IF psych THEN base_price - 100 ELSE base_price

\* the markup subtracted instead of added
original_price_data_markdown(price, raise_orig, markup_k) ==
    IF raise_orig THEN price - markup_k * 1000 ELSE price

\* raise_orig is the outcome of random.random() < 0.6, markup_k is random.randint(5, 50)
original_price_data(price, raise_orig, markup_k) ==
    IF raise_orig THEN price + markup_k * 1000 ELSE price

\* dates_data with the future test off by one day: closing_date_obj > today + 1
dates_data_late_flip(status, listing_date, days_on_market, days_to_close, t) ==
    IF status \in {"Under Contract", "Sold", "Archived"}
    THEN LET offer_date_obj   == listing_date + days_on_market
             offer_date       == strftime_iso(offer_date_obj)
             closing_date_obj == offer_date_obj + days_to_close
         IN  IF status = "Sold"
             THEN [status |-> IF closing_date_obj > t + 1 THEN "Under Contract"
                              ELSE status,
                   offer_date |-> offer_date, contract_date |-> offer_date,
                   closing_date |-> strftime_iso(closing_date_obj)]
             ELSE IF status = "Under Contract"
             THEN [status |-> status, offer_date |-> offer_date,
                   contract_date |-> offer_date,
                   closing_date |-> strftime_iso(closing_date_obj)]
             ELSE [status |-> status, offer_date |-> offer_date,
                   contract_date |-> offer_date, closing_date |-> ""]
    ELSE [status |-> status, offer_date |-> "", contract_date |-> "",
          closing_date |-> ""]

\* dates_data with contract_date set only where a closing date is computed
dates_data_no_contract(status, listing_date, days_on_market, days_to_close, t) ==
    IF status \in {"Under Contract", "Sold", "Archived"}
    THEN LET offer_date_obj   == listing_date + days_on_market
             offer_date       == strftime_iso(offer_date_obj)
             closing_date_obj == offer_date_obj + days_to_close
         IN  IF status = "Sold"
             THEN [status |-> IF closing_date_obj > t THEN "Under Contract"
                              ELSE status,
                   offer_date |-> offer_date, contract_date |-> offer_date,
                   closing_date |-> strftime_iso(closing_date_obj)]
             ELSE IF status = "Under Contract"
             THEN [status |-> status, offer_date |-> offer_date,
                   contract_date |-> offer_date,
                   closing_date |-> strftime_iso(closing_date_obj)]
             ELSE [status |-> status, offer_date |-> offer_date,
                   contract_date |-> "", closing_date |-> ""]
    ELSE [status |-> status, offer_date |-> "", contract_date |-> "",
          closing_date |-> ""]

\* the "Dates logic" block: status, offer, contract and closing date as emitted
dates_data(status, listing_date, days_on_market, days_to_close, t) ==
    IF status \in {"Under Contract", "Sold", "Archived"}
    THEN LET offer_date_obj   == listing_date + days_on_market
             offer_date       == strftime_iso(offer_date_obj)
             closing_date_obj == offer_date_obj + days_to_close
         IN  IF status = "Sold"
             THEN IF closing_date_obj > t
                  THEN [status |-> "Under Contract", offer_date |-> offer_date,
                        contract_date |-> offer_date,
                        closing_date |-> strftime_iso(closing_date_obj)]
                  ELSE [status |-> status, offer_date |-> offer_date,
                        contract_date |-> offer_date,
                        closing_date |-> strftime_iso(closing_date_obj)]
             ELSE IF status = "Under Contract"
             THEN [status |-> status, offer_date |-> offer_date,
                   contract_date |-> offer_date,
                   closing_date |-> strftime_iso(closing_date_obj)]
             ELSE [status |-> status, offer_date |-> offer_date,
                   contract_date |-> offer_date, closing_date |-> ""]
    ELSE [status |-> status, offer_date |-> "", contract_date |-> "",
          closing_date |-> ""]

\* the "Commission Logic" block, amounts in cents; buy_first is random.random() < 0.5
commission_data(price, is_double_ended, buy_first) ==
    LET side == Scale(price * 100, 3, 100)
        buy_side_comm  == IF is_double_ended \/ buy_first THEN side ELSE 0
        sell_side_comm == IF is_double_ended \/ ~buy_first THEN side ELSE 0
    IN  [buy_side_comm |-> buy_side_comm, sell_side_comm |-> sell_side_comm,
         total_comm |-> buy_side_comm + sell_side_comm]

\* the expiration date taken as six 30.5-day months
expiration_date_data_183(listing_date) == strftime_iso(listing_date + 183)

expiration_date_data(listing_date) == strftime_iso(listing_date + 180)

\* fmt_money: f"${val:,.2f}" if val else ""
fmt_money_data(cents) ==
    IF cents = 0 THEN ""
    ELSE "$" \o Commas(cents \div 100) \o "." \o Pad2(cents % 100)

\* f"{street_num} {random.choice(street_names)}, {city}, GA 30000"
address_data(street_num, street_name, city) ==
    ToString(street_num) \o " " \o street_name[1] \o " " \o street_name[2]
        \o ", " \o city \o ", GA 30000"

\* address.split(" ")[1] + " " + address.split(" ")[2]: the second word keeps its comma
street_name_field_data(street_name) ==
    street_name[1] \o " " \o (street_name[2] \o ",")

\* the local variables of generate_record when it returns, d being its random draws
locals_data(d, t) ==
    LET price        == price_data(d.base_k * 1000, d.psych)
        listing_date == random_date_data(START_DATE_data(t), END_DATE_data(t) - 60,
                                         d.listing_offset)
        dates        == dates_data(d.status, listing_date, d.days_on_market,
                                   d.days_to_close, t)
        comm         == commission_data(price, d.is_double_ended, d.buy_first)
    IN  [status         |-> dates.status,
         prop_type      |-> d.prop_type,
         city           |-> d.city,
         agent          |-> d.agent,
         lead_source    |-> d.lead_source,
         price          |-> price,
         original_price |-> original_price_data(price, d.raise_orig, d.markup_k),
         listing_date   |-> listing_date,
         created_date   |-> listing_date,
         offer_date     |-> dates.offer_date,
         closing_date   |-> dates.closing_date,
         contract_date  |-> dates.contract_date,
         buy_side_comm  |-> comm.buy_side_comm,
         sell_side_comm |-> comm.sell_side_comm,
         total_comm     |-> comm.total_comm,
         company_dollar |-> Scale(comm.total_comm, 20, 100),
         street_num     |-> d.street_num,
         address        |-> address_data(d.street_num, d.street_name, d.city)]

\* the dict generate_record returns, L being its local variables
record_data(loop_id, d, L) ==
        "Loop View" :> loop_id
     @@ "Loop ID" :> loop_id
     @@ "Loop Name" :> L.address
     @@ "Loop Status" :> L.status
     @@ "Compliance Status" :> (IF L.status = "Sold" THEN "Approved" ELSE "Pending")
     @@ "Tags" :> (IF L.price > 800000 THEN "Top Producer" ELSE "")
     @@ "Created Date" :> strftime_iso(L.created_date)
     @@ "Closing Date" :> L.closing_date
     @@ "Expiration Date" :> expiration_date_data(L.listing_date)
     @@ "Listing Date" :> strftime_iso(L.listing_date)
     @@ "Joined Date" :> strftime_iso(L.created_date)
     @@ "Offer Date" :> L.offer_date
     @@ "Address" :> L.address
     @@ "Price" :> fmt_money_data(L.price * 100)
     @@ "Created By" :> L.agent
     @@ "Created By Admin" :> "false"
     @@ "Agents" :> L.agent
     @@ "Property Address / City" :> L.city
     @@ "Property Address / Country" :> "USA"
     @@ "Property Address / County" :> "Fulton"
     @@ "Property Address / State/Prov" :> "GA"
     @@ "Property Address / Street Name" :> street_name_field_data(d.street_name)
     @@ "Property Address / Street Number" :> ToString(L.street_num)
     @@ "Property Address / Zip/Postal Code" :> "30000"
     @@ "Contract Dates / Closing Date" :> L.closing_date
     @@ "Contract Dates / Contract Agreement Date" :> L.contract_date
     @@ "Financials / Earnest Money Amount" :> fmt_money_data(Scale(L.price * 100, 1, 100))
     @@ "Financials / Earnest Money Held By" :> "Broker"
     @@ "Financials / Purchase/Sale Price" :> fmt_money_data(L.price * 100)
     @@ "Financials / Sale Commission Rate" :> "3%"
     @@ "Financials / Sale Commission Split $ - Buy Side" :> fmt_money_data(L.buy_side_comm)
     @@ "Financials / Sale Commission Split $ - Sell Side" :> fmt_money_data(L.sell_side_comm)
     @@ "Financials / Sale Commission Split % - Buy Side" :>
            (IF L.buy_side_comm > 0 THEN "3%" ELSE "0%")
     @@ "Financials / Sale Commission Split % - Sell Side" :>
            (IF L.sell_side_comm > 0 THEN "3%" ELSE "0%")
     @@ "Financials / Sale Commission Total" :> fmt_money_data(L.total_comm)
     @@ "Listing Information / Current Price" :> fmt_money_data(L.price * 100)
     @@ "Listing Information / Original Price" :> fmt_money_data(L.original_price * 100)
     @@ "Listing Information / Listing Date" :> strftime_us(L.listing_date)
     @@ "Property / Bathrooms" :> d.bathrooms
     @@ "Property / Bedrooms" :> d.bedrooms
     @@ "Property / Lot Size" :> d.lot_size
     @@ "Property / Square Footage" :> d.square_footage
     @@ "Property / Type" :> L.prop_type
     @@ "Property / Year Built" :> d.year_built
     @@ "Referral / Referral %" :> (IF L.lead_source = "Referral" THEN "25%" ELSE "0%")
     @@ "Referral / Referral Source" :> L.lead_source
     @@ "Company Information / office managing broker" :> "John Broker"
     @@ "Net to Office" :> fmt_money_data(L.company_dollar)

generate_record_data(loop_id, d, t) == record_data(loop_id, d, locals_data(d, t))

\* the header list without the column generate_record adds on its own
headers_data_short == <<"Loop View", "Loop ID", "Loop Name", "Loop Status",
    "Compliance Status", "Tags", "Created Date", "Closing Date", "Expiration Date",
    "Listing Date", "Joined Date", "Offer Date", "Address", "Price", "Created By",
    "Created By Admin", "Agents", "Property Address / City",
    "Property Address / Country", "Property Address / County",
    "Property Address / State/Prov", "Property Address / Street Name",
    "Property Address / Street Number", "Property Address / Zip/Postal Code",
    "Contract Dates / Closing Date", "Contract Dates / Contract Agreement Date",
    "Financials / Earnest Money Amount", "Financials / Earnest Money Held By",
    "Financials / Purchase/Sale Price", "Financials / Sale Commission Rate",
    "Financials / Sale Commission Split $ - Buy Side",
    "Financials / Sale Commission Split $ - Sell Side",
    "Financials / Sale Commission Split % - Buy Side",
    "Financials / Sale Commission Split % - Sell Side",
    "Financials / Sale Commission Total", "Listing Information / Current Price",
    "Listing Information / Original Price", "Listing Information / Listing Date",
    "Property / Bathrooms", "Property / Bedrooms", "Property / Lot Size",
    "Property / Square Footage", "Property / Type", "Property / Year Built",
    "Referral / Referral %", "Referral / Referral Source",
    "Company Information / office managing broker">>

headers_data == <<"Loop View", "Loop ID", "Loop Name", "Loop Status",
    "Compliance Status", "Tags", "Created Date", "Closing Date", "Expiration Date",
    "Listing Date", "Joined Date", "Offer Date", "Address", "Price", "Created By",
    "Created By Admin", "Agents", "Property Address / City",
    "Property Address / Country", "Property Address / County",
    "Property Address / State/Prov", "Property Address / Street Name",
    "Property Address / Street Number", "Property Address / Zip/Postal Code",
    "Contract Dates / Closing Date", "Contract Dates / Contract Agreement Date",
    "Financials / Earnest Money Amount", "Financials / Earnest Money Held By",
    "Financials / Purchase/Sale Price", "Financials / Sale Commission Rate",
    "Financials / Sale Commission Split $ - Buy Side",
    "Financials / Sale Commission Split $ - Sell Side",
    "Financials / Sale Commission Split % - Buy Side",
    "Financials / Sale Commission Split % - Sell Side",
    "Financials / Sale Commission Total", "Listing Information / Current Price",
    "Listing Information / Original Price", "Listing Information / Listing Date",
    "Property / Bathrooms", "Property / Bedrooms", "Property / Lot Size",
    "Property / Square Footage", "Property / Type", "Property / Year Built",
    "Referral / Referral %", "Referral / Referral Source",
    "Company Information / office managing broker", "Net to Office">>

---------------------------------------------------------------------------
(* generate_record of generate_demo_soldtest.py, piece by piece *)

price_range_soldtest(prop_type) ==
    IF prop_type = "SingleFamily" THEN <<450, 2500>>
    ELSE IF prop_type = "Condo" THEN <<300, 900>>
    ELSE IF prop_type = "Townhouse" THEN <<400, 1200>>
    ELSE IF prop_type = "MultiFamily" THEN <<600, 3000>>
    ELSE IF prop_type = "Land" THEN <<100, 800>>
    ELSE <<300, 800>>

price_soldtest(base_price, psych) ==
    IF psych THEN base_price - 100 ELSE base_price

\* markup_k is random.randint(10, 100)
original_price_soldtest(price, raise_orig, markup_k) ==
    IF raise_orig THEN price + markup_k * 1000 ELSE price

\* dates_soldtest with the future test written >= instead of >
dates_soldtest_flip_today(status, listing_date, days_on_market, days_to_close, days_to_future_close, t) ==
    IF status \in {"Under Contract", "Active Listing"}
    THEN LET closing_date_obj == t + days_to_future_close
             offer_date_obj   == closing_date_obj - 45
         IN  [status |-> status, offer_date |-> strftime_iso(offer_date_obj),
              contract_date |-> strftime_iso(offer_date_obj),
              closing_date |-> strftime_iso(closing_date_obj)]
    ELSE IF status \in {"Sold", "Archived"}
    THEN LET offer_date_obj   == listing_date + days_on_market
             closing_date_obj == offer_date_obj + days_to_close
         IN  [status |-> IF closing_date_obj >= t THEN "Under Contract" ELSE status,
              offer_date |-> strftime_iso(offer_date_obj),
              contract_date |-> strftime_iso(offer_date_obj),
              closing_date |-> strftime_iso(closing_date_obj)]
    ELSE [status |-> status, offer_date |-> "", contract_date |-> "",
          closing_date |-> ""]

\* dates_soldtest with the offer date back-calculated from today, not from the
\* closing date
dates_soldtest_offer_from_today(status, listing_date, days_on_market, days_to_close, days_to_future_close, t) ==
    IF status \in {"Under Contract", "Active Listing"}
    THEN LET closing_date_obj == t + days_to_future_close
             offer_date_obj   == t - 45
         IN  [status |-> status, offer_date |-> strftime_iso(offer_date_obj),
              contract_date |-> strftime_iso(offer_date_obj),
              closing_date |-> strftime_iso(closing_date_obj)]
    ELSE IF status \in {"Sold", "Archived"}
    THEN LET offer_date_obj   == listing_date + days_on_market
             closing_date_obj == offer_date_obj + days_to_close
         IN  [status |-> IF closing_date_obj > t THEN "Under Contract" ELSE status,
              offer_date |-> strftime_iso(offer_date_obj),
              contract_date |-> strftime_iso(offer_date_obj),
              closing_date |-> strftime_iso(closing_date_obj)]
    ELSE [status |-> status, offer_date |-> "", contract_date |-> "",
          closing_date |-> ""]

\* the "Dates logic" block: pipeline statuses close in the future, closed ones are
\* derived from the listing date and flipped when their closing date is in the future
dates_soldtest(status, listing_date, days_on_market, days_to_close, days_to_future_close, t) ==
    IF status \in {"Under Contract", "Active Listing"}
    THEN LET closing_date_obj == t + days_to_future_close
             offer_date_obj   == closing_date_obj - 45
         IN  [status |-> status, offer_date |-> strftime_iso(offer_date_obj),
              contract_date |-> strftime_iso(offer_date_obj),
              closing_date |-> strftime_iso(closing_date_obj)]
    ELSE IF status \in {"Sold", "Archived"}
    THEN LET offer_date_obj   == listing_date + days_on_market
             closing_date_obj == offer_date_obj + days_to_close
         IN  [status |-> IF closing_date_obj > t THEN "Under Contract" ELSE status,
              offer_date |-> strftime_iso(offer_date_obj),
              contract_date |-> strftime_iso(offer_date_obj),
              closing_date |-> strftime_iso(closing_date_obj)]
    ELSE [status |-> status, offer_date |-> "", contract_date |-> "",
          closing_date |-> ""]

\* commission_soldtest whose single-sided branch leaves the sell side set
commission_soldtest_sell_kept(price, is_double_ended, buy_first) ==
    LET side == Scale(price * 100, 25, 1000)
        buy_side_comm  == IF is_double_ended \/ buy_first THEN side ELSE 0
        sell_side_comm == side
    IN  [buy_side_comm |-> buy_side_comm, sell_side_comm |-> sell_side_comm,
         total_comm |-> buy_side_comm + sell_side_comm]

\* the "Commission Logic" block, commission_rate = 0.025, amounts in cents
commission_soldtest(price, is_double_ended, buy_first) ==
    LET side == Scale(price * 100, 25, 1000)
        buy_side_comm  == IF is_double_ended \/ buy_first THEN side ELSE 0
        sell_side_comm == IF is_double_ended \/ ~buy_first THEN side ELSE 0
    IN  [buy_side_comm |-> buy_side_comm, sell_side_comm |-> sell_side_comm,
         total_comm |-> buy_side_comm + sell_side_comm]

expiration_date_soldtest(listing_date) == strftime_iso(listing_date + 180)

\* fmt_money: f"{val:.2f}" if val else ".00"
fmt_money_soldtest(cents) ==
    IF cents = 0 THEN ".00"
    ELSE ToString(cents \div 100) \o "." \o Pad2(cents % 100)

\* f"{street_num} {random.choice(street_names)}, {city}, MA 021{random.randint(10, 99)}"
address_soldtest(street_num, street_name, city, zip) ==
    ToString(street_num) \o " " \o street_name \o ", " \o city
        \o ", MA 021" \o ToString(zip)

\* address.split(',')[0].split(' ', 1)[1]: what follows the street number
street_name_field_soldtest(street_num, street_name) == street_name

locals_soldtest(d, t) ==
    LET price        == price_soldtest(d.base_k * 1000, d.psych)
        listing_date == random_date_soldtest(START_DATE_soldtest(t),
                                             END_DATE_soldtest(t) - 60,
                                             d.listing_offset)
        dates        == dates_soldtest(d.status, listing_date, d.days_on_market,
                                       d.days_to_close, d.days_to_future_close, t)
        comm         == commission_soldtest(price, d.is_double_ended, d.buy_first)
    IN  [status         |-> dates.status,
         prop_type      |-> d.prop_type,
         city           |-> d.city,
         agent          |-> d.agent,
         lead_source    |-> d.lead_source,
         price          |-> price,
         original_price |-> original_price_soldtest(price, d.raise_orig, d.markup_k),
         listing_date   |-> listing_date,
         created_date   |-> listing_date,
         offer_date     |-> dates.offer_date,
         closing_date   |-> dates.closing_date,
         contract_date  |-> dates.contract_date,
         buy_side_comm  |-> comm.buy_side_comm,
         sell_side_comm |-> comm.sell_side_comm,
         total_comm     |-> comm.total_comm,
         street_num     |-> d.street_num,
         address        |-> address_soldtest(d.street_num, d.street_name, d.city,
                                             d.zip_address)]

\* the dict generate_record returns, L being its local variables; zip_address2 and zip_field are the
\* random.randint(10, 99) calls made inside the dict literal
record_soldtest(loop_id, d, L) ==
        "Loop View" :> loop_id
     @@ "Loop ID" :> loop_id
     @@ "Loop Name" :> L.address
     @@ "Loop Status" :> L.status
     @@ "Compliance Status" :> (IF L.status = "Sold" THEN "Approved" ELSE "Pending")
     @@ "Tags" :> (IF L.price > 1500000 THEN "Luxury" ELSE "")
     @@ "Created Date" :> strftime_iso(L.created_date)
     @@ "Closing Date" :> L.closing_date
     @@ "Expiration Date" :> expiration_date_soldtest(L.listing_date)
     @@ "Listing Date" :> strftime_iso(L.listing_date)
     @@ "Joined Date" :> strftime_iso(L.created_date)
     @@ "Offer Date" :> L.offer_date
     @@ "Address" :> L.address
     @@ "Price" :> fmt_money_soldtest(L.price * 100)
     @@ "Created By" :> L.agent
     @@ "Created By Admin" :> "false"
     @@ "Agents" :> L.agent
     @@ "Property Address / City, State/Prov, Zip/Postal Code (Address 2)" :>
            (L.city \o ", MA 021" \o ToString(d.zip_address2))
     @@ "Property Address / Street Number, Street Name, Unit Number (Address 1)" :>
            (ToString(L.street_num) \o " "
                \o street_name_field_soldtest(L.street_num, d.street_name))
     @@ "Car / other_terms" :> ""
     @@ "Contract Dates / Closing Date" :> L.closing_date
     @@ "Contract Dates / Contract Agreement Date" :> L.contract_date
     @@ "Financials / Earnest Money Amount" :>
            fmt_money_soldtest(Scale(L.price * 100, 5, 100))
     @@ "Financials / Earnest Money Held By" :> "Brokerage"
     @@ "Financials / Purchase/Sale Price" :> fmt_money_soldtest(L.price * 100)
     @@ "Financials / Sale Commission Rate" :> "2.5"
     @@ "Financials / Sale Commission Split $ - Buy Side" :>
            fmt_money_soldtest(L.buy_side_comm)
     @@ "Financials / Sale Commission Split $ - Sell Side" :>
            fmt_money_soldtest(L.sell_side_comm)
     @@ "Financials / Sale Commission Split % - Buy Side" :>
            (IF L.buy_side_comm > 0 THEN "2.5" ELSE "0")
     @@ "Financials / Sale Commission Split % - Sell Side" :>
            (IF L.sell_side_comm > 0 THEN "2.5" ELSE "0")
     @@ "Financials / Sale Commission Total" :> fmt_money_soldtest(L.total_comm)
     @@ "Geographic Description / Legal Description" :> ""
     @@ "Lead Source / Lead Source" :> L.lead_source
     @@ "Listing Information / Current Price" :> fmt_money_soldtest(L.price * 100)
     @@ "Listing Information / Expiration Date" :>
            expiration_date_soldtest(L.listing_date)
     @@ "Listing Information / Homeowner's Association Dues" :>
            (IF L.prop_type = "Condo" THEN ToString(d.hoa_dues) ELSE "")
     @@ "Listing Information / Listing Date" :> strftime_us(L.listing_date)
     @@ "Listing Information / Original Price" :>
            fmt_money_soldtest(L.original_price * 100)
     @@ "Listing Information / Property Excludes" :> ""
     @@ "Listing Information / Remarks" :> "Beautiful property in prime location."
     @@ "Offer Dates / Occupancy Date" :> L.closing_date
     @@ "Property / Bathrooms" :> ToString(d.bathrooms)
     @@ "Property / Bedrooms" :> ToString(d.bedrooms)
     @@ "Property / Lot Size" :> ToString(d.lot_size)
     @@ "Property / Square Footage" :> ToString(d.square_footage)
     @@ "Property / Type" :> L.prop_type
     @@ "Property / Year Built" :> ToString(d.year_built)
     @@ "Property Address / City" :> L.city
     @@ "Property Address / Country" :> "USA"
     @@ "Property Address / County" :> "Suffolk"
     @@ "Property Address / Full Address" :> L.address
     @@ "Property Address / MLS Number" :> ToString(d.mls_number)
     @@ "Property Address / Parcel/Tax ID" :> ""
     @@ "Property Address / State/Prov" :> "MA"
     @@ "Property Address / Street Name" :>
            street_name_field_soldtest(L.street_num, d.street_name)
     @@ "Property Address / Street Number" :> ToString(L.street_num)
     @@ "Property Address / Unit Number" :> ""
     @@ "Property Address / Zip/Postal Code" :> ("021" \o ToString(d.zip_field))
     @@ "Referral / LEAD SOURCE" :> L.lead_source
     @@ "Referral / Referral %" :> (IF L.lead_source = "Referral" THEN "25" ELSE "0")
     @@ "Referral / Referral Source" :>
            (IF L.lead_source = "Referral" THEN L.lead_source ELSE "")

generate_record_soldtest(loop_id, d, t) == record_soldtest(loop_id, d, locals_soldtest(d, t))

headers_soldtest == <<"Loop View", "Loop ID", "Loop Name", "Loop Status",
    "Compliance Status", "Tags", "Created Date", "Closing Date", "Expiration Date",
    "Listing Date", "Joined Date", "Offer Date", "Address", "Price", "Created By",
    "Created By Admin", "Agents",
    "Property Address / City, State/Prov, Zip/Postal Code (Address 2)",
    "Property Address / Street Number, Street Name, Unit Number (Address 1)",
    "Car / other_terms", "Contract Dates / Closing Date",
    "Contract Dates / Contract Agreement Date", "Financials / Earnest Money Amount",
    "Financials / Earnest Money Held By", "Financials / Purchase/Sale Price",
    "Financials / Sale Commission Rate",
    "Financials / Sale Commission Split $ - Buy Side",
    "Financials / Sale Commission Split $ - Sell Side",
    "Financials / Sale Commission Split % - Buy Side",
    "Financials / Sale Commission Split % - Sell Side",
    "Financials / Sale Commission Total",
    "Geographic Description / Legal Description", "Lead Source / Lead Source",
    "Listing Information / Current Price", "Listing Information / Expiration Date",
    "Listing Information / Homeowner's Association Dues",
    "Listing Information / Listing Date", "Listing Information / Original Price",
    "Listing Information / Property Excludes", "Listing Information / Remarks",
    "Offer Dates / Occupancy Date", "Property / Bathrooms", "Property / Bedrooms",
    "Property / Lot Size", "Property / Square Footage", "Property / Type",
    "Property / Year Built", "Property Address / City", "Property Address / Country",
    "Property Address / County", "Property Address / Full Address",
    "Property Address / MLS Number", "Property Address / Parcel/Tax ID",
    "Property Address / State/Prov", "Property Address / Street Name",
    "Property Address / Street Number", "Property Address / Unit Number",
    "Property Address / Zip/Postal Code", "Referral / LEAD SOURCE",
    "Referral / Referral %", "Referral / Referral Source">>

---------------------------------------------------------------------------
(* The random draws explored by the model *)

\* the EdgeWidth lowest and the EdgeWidth highest values of random.randint(lo, hi)
Edges(lo, hi) ==
    {x \in (lo .. (lo + EdgeWidth - 1)) \cup ((hi - EdgeWidth + 1) .. hi) :
        lo <= x /\ x <= hi}

\* one position in a range: the j-th value from its low or from its high end
Picks == {"low", "high"} \X (0 .. (EdgeWidth - 1))

Pick(lo, hi, a) == IF a[1] = "low" THEN lo + a[2] ELSE hi - a[2]

PickAt(seq, a) == seq[Pick(1, Len(seq), a)]

DefaultPick == <<"low", 0>>

\* the dates datetime.date.today() returns in the runs explored: the first makes
\* START_DATE 2025-01-01, the second puts 2024-02-29 inside the window
Todays == {DaysFromCivil(2025, 12, 27), DaysFromCivil(2024, 6, 15)}

\* values of random.randint(0, (end - start).days) in random_date: both ends of the
\* range and the offsets at which the latest closing date crosses today
ListingOffsets(start, end, t) ==
    Edges(0, end - start)
        \cup {x \in ((t - start - 150 - EdgeWidth + 1) .. (t - start - 150 + EdgeWidth)) :
                0 <= x /\ x <= end - start}

\* the random values one call of generate_record (brokerage script) consumes;
\* a randint the executed branch does not call is NoDraw, a random() it does not
\* call is FALSE
draw_data(st, off, dom, dtc, pt, bk, ps, ro, mk, dbl, bf, lead, a) ==
    [status          |-> st,
     prop_type       |-> pt,
     city            |-> PickAt(CITIES_data, a),
     agent           |-> PickAt(AGENTS_data, a),
     lead_source     |-> lead,
     base_k          |-> bk,
     psych           |-> ps,
     raise_orig      |-> ro,
     markup_k        |-> IF ro THEN mk ELSE NoDraw,
     listing_offset  |-> off,
     days_on_market  |-> IF st \in {"Under Contract", "Sold", "Archived"}
                         THEN dom ELSE NoDraw,
     days_to_close   |-> IF st \in {"Sold", "Under Contract"} THEN dtc ELSE NoDraw,
     is_double_ended |-> dbl,
     buy_first       |-> IF dbl THEN FALSE ELSE bf,
     street_num      |-> Pick(100, 9999, a),
     street_name     |-> PickAt(street_names_data, a),
     bathrooms       |-> Pick(2, 5, a),
     bedrooms        |-> Pick(3, 6, a),
     lot_size        |-> Pick(5000, 40000, a),
     square_footage  |-> Pick(1500, 5000, a),
     year_built      |-> Pick(1980, 2024, a)]

\* draws that vary the status and the dates
DateDraws_data(t) ==
    {draw_data(st, off, dom, dtc, PROPERTY_TYPES_data[1],
               price_range_data(PROPERTY_TYPES_data[1])[1], TRUE, FALSE, NoDraw,
               FALSE, TRUE, LEAD_SOURCES_data[1], DefaultPick) :
        st \in Range(STATUSES_data),
        off \in ListingOffsets(START_DATE_data(t), END_DATE_data(t) - 60, t),
        dom \in Edges(5, 90), dtc \in Edges(30, 60)}

\* draws that vary the property type, the prices and the commission split
PriceDraws_data ==
    UNION {{draw_data(STATUSES_data[1], 0, 5, 30, pt, bk, ps, ro, mk, dbl, bf,
                      LEAD_SOURCES_data[1], DefaultPick) :
                bk \in Edges(price_range_data(pt)[1], price_range_data(pt)[2]),
                ps \in BOOLEAN, ro \in BOOLEAN, mk \in Edges(5, 50),
                dbl \in BOOLEAN, bf \in BOOLEAN} :
           pt \in Range(PROPERTY_TYPES_data)}

\* draws that vary the lead source, the address and the property details
AuxDraws_data ==
    {draw_data(STATUSES_data[1], 0, 5, 30, PROPERTY_TYPES_data[1],
               price_range_data(PROPERTY_TYPES_data[1])[1], TRUE, FALSE, NoDraw,
               FALSE, TRUE, lead, a) :
        lead \in Range(LEAD_SOURCES_data), a \in Picks}

Draws_data(t) == DateDraws_data(t) \cup PriceDraws_data \cup AuxDraws_data

\* the draws of the driver loop: one per status
LoopDraws_data ==
    {draw_data(st, 0, 5, 30, PROPERTY_TYPES_data[1],
               price_range_data(PROPERTY_TYPES_data[1])[1], TRUE, FALSE, NoDraw,
               FALSE, TRUE, LEAD_SOURCES_data[1], DefaultPick) :
        st \in Range(STATUSES_data)}

\* the random values one call of generate_record (sold-test script) consumes
draw_soldtest(st, off, dom, dtc, dfc, pt, bk, ps, ro, mk, dbl, bf, lead, a, zips) ==
    [status          |-> st,
     prop_type       |-> pt,
     city            |-> PickAt(CITIES_soldtest, a),
     agent           |-> PickAt(AGENTS_soldtest, a),
     lead_source     |-> lead,
     base_k          |-> bk,
     psych           |-> ps,
     raise_orig      |-> ro,
     markup_k        |-> IF ro THEN mk ELSE NoDraw,
     listing_offset  |-> off,
     days_to_future_close |-> IF st \in {"Under Contract", "Active Listing"}
                              THEN dfc ELSE NoDraw,
     days_on_market  |-> IF st \in {"Sold", "Archived"} THEN dom ELSE NoDraw,
     days_to_close   |-> IF st \in {"Sold", "Archived"} THEN dtc ELSE NoDraw,
     is_double_ended |-> dbl,
     buy_first       |-> IF dbl THEN FALSE ELSE bf,
     street_num      |-> Pick(1, 999, a),
     street_name     |-> PickAt(street_names_soldtest, a),
     zip_address     |-> zips[1],
     zip_address2    |-> zips[2],
     zip_field       |-> zips[3],
     hoa_dues        |-> IF pt = "Condo" THEN Pick(200, 800, a) ELSE NoDraw,
     bathrooms       |-> Pick(1, 4, a),
     bedrooms        |-> Pick(2, 6, a),
     lot_size        |-> Pick(1000, 10000, a),
     square_footage  |-> Pick(800, 4000, a),
     year_built      |-> Pick(1900, 2024, a),
     mls_number      |-> Pick(70000000, 79999999, a)]

DefaultZips == <<10, 10, 10>>

DateDraws_soldtest(t) ==
    {draw_soldtest(st, off, dom, dtc, dfc, PROPERTY_TYPES_soldtest[1],
                   price_range_soldtest(PROPERTY_TYPES_soldtest[1])[1], TRUE, FALSE,
                   NoDraw, FALSE, TRUE, LEAD_SOURCES_soldtest[1], DefaultPick,
                   DefaultZips) :
        st \in Range(STATUSES_soldtest),
        off \in ListingOffsets(START_DATE_soldtest(t), END_DATE_soldtest(t) - 60, t),
        dom \in Edges(5, 90), dtc \in Edges(30, 60), dfc \in Edges(15, 85)}

PriceDraws_soldtest ==
    UNION {{draw_soldtest(STATUSES_soldtest[1], 0, 5, 30, NoDraw, pt, bk, ps, ro, mk,
                          dbl, bf, LEAD_SOURCES_soldtest[1], DefaultPick, DefaultZips) :
                bk \in Edges(price_range_soldtest(pt)[1], price_range_soldtest(pt)[2]),
                ps \in BOOLEAN, ro \in BOOLEAN, mk \in Edges(10, 100),
                dbl \in BOOLEAN, bf \in BOOLEAN} :
           pt \in Range(PROPERTY_TYPES_soldtest)}

AuxDraws_soldtest ==
    {draw_soldtest(STATUSES_soldtest[1], 0, 5, 30, NoDraw, PROPERTY_TYPES_soldtest[2],
                   price_range_soldtest(PROPERTY_TYPES_soldtest[2])[1], TRUE, FALSE,
                   NoDraw, FALSE, TRUE, lead, a, DefaultZips) :
        lead \in Range(LEAD_SOURCES_soldtest), a \in Picks}
    \cup
    {draw_soldtest(STATUSES_soldtest[1], 0, 5, 30, NoDraw, PROPERTY_TYPES_soldtest[1],
                   price_range_soldtest(PROPERTY_TYPES_soldtest[1])[1], TRUE, FALSE,
                   NoDraw, FALSE, TRUE, LEAD_SOURCES_soldtest[1], a, zips) :
        a \in Picks, zips \in Edges(10, 99) \X Edges(10, 99) \X Edges(10, 99)}

Draws_soldtest(t) == DateDraws_soldtest(t) \cup PriceDraws_soldtest \cup AuxDraws_soldtest

LoopDraws_soldtest ==
    {draw_soldtest(st, 0, 5, 30, 15, PROPERTY_TYPES_soldtest[1],
                   price_range_soldtest(PROPERTY_TYPES_soldtest[1])[1], TRUE, FALSE,
                   NoDraw, FALSE, TRUE, LEAD_SOURCES_soldtest[1], DefaultPick,
                   DefaultZips) :
        st \in Range(STATUSES_soldtest)}

---------------------------------------------------------------------------
(* The driver and the CSV writer *)

\* NUM_RECORDS is 350 in the brokerage script and 400 in the sold-test script;
\* the model generates MaxRecords records
NUM_RECORDS_data == MaxRecords

NUM_RECORDS_soldtest == MaxRecords

\* first loop identifier: generate_record(300000000 + i)
BaseLoopId == 300000000

\* csv.DictWriter._dict_to_list: the cells of a row in header order, "" for a
\* key the dict lacks
DictRow(fieldnames, rowdict) ==
    [k \in 1 .. Len(fieldnames) |->
        IF fieldnames[k] \in DOMAIN rowdict THEN rowdict[fieldnames[k]] ELSE ""]

\* csv.DictWriter (extrasaction = "raise"): keys of the dict that are no field name
WrongFields(fieldnames, rowdict) == DOMAIN rowdict \ Range(fieldnames)

\* index of the first row writerows rejects, Len(rows) + 1 when there is none
FirstRejected(fieldnames, rows) ==
    IF \E k \in 1 .. Len(rows) : WrongFields(fieldnames, rows[k]) # {}
    THEN CHOOSE k \in 1 .. Len(rows) :
            /\ WrongFields(fieldnames, rows[k]) # {}
            /\ \A j \in 1 .. (k - 1) : WrongFields(fieldnames, rows[j]) = {}
    ELSE Len(rows) + 1

\* writeheader() followed by writerows(records): the rows that reach the file
WrittenLines(fieldnames, rows) ==
    <<fieldnames>> \o [k \in 1 .. (FirstRejected(fieldnames, rows) - 1) |->
                          DictRow(fieldnames, rows[k])]

Init ==
    /\ script \in {"data", "soldtest"}
    /\ today \in Todays
    /\ pc = "start"
    /\ i = 0
    /\ records = <<>>
    /\ lines = <<>>
    /\ draw = <<>>
    /\ locals = <<>>
    /\ rec = <<>>

\* one call generate_record(300000000) of the brokerage script
Call_data ==
    /\ script = "data"
    /\ pc = "start"
    /\ \E d \in Draws_data(today) :
        /\ draw' = d
        /\ locals' = locals_data(d, today)
        /\ rec' = generate_record_data(BaseLoopId + i, d, today)
    /\ pc' = "returned"
    /\ UNCHANGED <<script, today, i, records, lines>>

\* one call generate_record(300000000) of the sold-test script
Call_soldtest ==
    /\ script = "soldtest"
    /\ pc = "start"
    /\ \E d \in Draws_soldtest(today) :
        /\ draw' = d
        /\ locals' = locals_soldtest(d, today)
        /\ rec' = generate_record_soldtest(BaseLoopId + i, d, today)
    /\ pc' = "returned"
    /\ UNCHANGED <<script, today, i, records, lines>>

\* one iteration of: for i in range(NUM_RECORDS): records.append(generate_record(...))
Loop_data ==
    /\ script = "data"
    /\ pc = "start"
    /\ i < NUM_RECORDS_data
    /\ \E d \in LoopDraws_data :
        records' = Append(records, generate_record_data(BaseLoopId + i, d, today))
    /\ i' = i + 1
    /\ UNCHANGED <<script, today, pc, lines, draw, locals, rec>>

Loop_soldtest ==
    /\ script = "soldtest"
    /\ pc = "start"
    /\ i < NUM_RECORDS_soldtest
    /\ \E d \in LoopDraws_soldtest :
        records' = Append(records, generate_record_soldtest(BaseLoopId + i, d, today))
    /\ i' = i + 1
    /\ UNCHANGED <<script, today, pc, lines, draw, locals, rec>>

\* the with block: DictWriter(f, fieldnames = headers), writeheader, writerows
WriteCsv_data ==
    /\ script = "data"
    /\ pc = "start"
    /\ i = NUM_RECORDS_data
    /\ lines' = WrittenLines(headers_data, records)
    /\ pc' = IF FirstRejected(headers_data, records) > Len(records)
             THEN "done" ELSE "ValueError"
    /\ UNCHANGED <<script, today, i, records, draw, locals, rec>>

WriteCsv_soldtest ==
    /\ script = "soldtest"
    /\ pc = "start"
    /\ i = NUM_RECORDS_soldtest
    /\ lines' = WrittenLines(headers_soldtest, records)
    /\ pc' = IF FirstRejected(headers_soldtest, records) > Len(records)
             THEN "done" ELSE "ValueError"
    /\ UNCHANGED <<script, today, i, records, draw, locals, rec>>

\* a single call of generate_record, over all the draws explored
Next == Call_data \/ Call_soldtest

Spec == Init /\ [][Next]_vars

\* the whole script: the driver loop, then the CSV writer
NextDriver == Loop_data \/ Loop_soldtest \/ WriteCsv_data \/ WriteCsv_soldtest

SpecDriver == Init /\ [][NextDriver]_vars

---------------------------------------------------------------------------
(* Reading the emitted record back *)

\* the "%Y-%m-%d" text of every day from 500 days before the earliest run to 300
\* days after the latest one
IsoTexts ==
    LET first == CHOOSE t \in Todays : \A u \in Todays : t <= u
        last  == CHOOSE t \in Todays : \A u \in Todays : u <= t
    IN  [z \in (first - 500) .. (last + 300) |-> strftime_iso(z)]

\* the inverse of IsoTexts: the day each text denotes
IsoDays ==
    [text \in Range(IsoTexts) |-> CHOOSE z \in DOMAIN IsoTexts : IsoTexts[z] = text]

\* the date a "%Y-%m-%d" text denotes; a text that denotes no date of IsoTexts
\* reads as a date far in the past
ParseDate(text) ==
    IF text \in DOMAIN IsoDays THEN IsoDays[text] ELSE 0 - 1000000

Returned == pc = "returned"

EmittedStatus == rec["Loop Status"]

\* fmt_money of the running script
fmt_money(cents) ==
    IF script = "data" THEN fmt_money_data(cents) ELSE fmt_money_soldtest(cents)

\* closing date a record sampled Sold or Under Contract (brokerage) or Sold or
\* Archived (sold test) computes from its draws
ComputedClosing ==
    ParseDate(rec["Listing Date"]) + draw.days_on_market + draw.days_to_close

---------------------------------------------------------------------------
(* Claims *)

\* C1: a record emitted with Loop Status "Sold" has a closing date that is not
\* after today; a record sampled "Sold" whose computed closing date is after
\* today is emitted as "Under Contract" and keeps that closing date
C1_SoldNotInFuture ==
    Returned =>
        /\ EmittedStatus = "Sold" =>
              /\ rec["Closing Date"] # ""
              /\ ParseDate(rec["Closing Date"]) <= today
        /\ (draw.status = "Sold" /\ ComputedClosing > today) =>
              /\ EmittedStatus = "Under Contract"
              /\ rec["Closing Date"] = strftime_iso(ComputedClosing)
              /\ rec["Contract Dates / Closing Date"] = rec["Closing Date"]

\* a record sampled Sold that closes the day after today and is downgraded
C1_Witness ==
    /\ Returned
    /\ draw.status = "Sold"
    /\ ComputedClosing = today + 1
    /\ EmittedStatus = "Under Contract"

\* C2: the emitted commission total is buy side plus sell side, each side is 0 or
\* exactly price x rate, both sides are nonzero only for a double-ended record,
\* and otherwise exactly one side is nonzero
C2_CommissionSplit ==
    Returned =>
        LET side == IF script = "data" THEN locals.price * 3
                    ELSE (locals.price * 5) \div 2
            buy  == locals.buy_side_comm
            sell == locals.sell_side_comm
        IN  /\ script = "soldtest" => (locals.price * 5) % 2 = 0
            /\ buy \in {0, side}
            /\ sell \in {0, side}
            /\ locals.total_comm = buy + sell
            /\ rec["Financials / Sale Commission Total"] = fmt_money(buy + sell)
            /\ rec["Financials / Sale Commission Split $ - Buy Side"] = fmt_money(buy)
            /\ rec["Financials / Sale Commission Split $ - Sell Side"] = fmt_money(sell)
            /\ (buy # 0 /\ sell # 0) => draw.is_double_ended
            /\ ~draw.is_double_ended => ((buy = 0) # (sell = 0))

\* a single-sided record of the sold-test script with a price ending in 900
C2_Witness ==
    /\ Returned
    /\ script = "soldtest"
    /\ ~draw.is_double_ended
    /\ draw.psych
    /\ locals.buy_side_comm > 0
    /\ locals.sell_side_comm = 0

\* C3: a record emitted as Sold, Under Contract or Archived has a non-empty Offer
\* Date, and its Contract Agreement Date equals the Offer Date
C3_OfferEqualsContract ==
    (Returned /\ EmittedStatus \in {"Sold", "Under Contract", "Archived"}) =>
        /\ rec["Offer Date"] # ""
        /\ rec["Contract Dates / Contract Agreement Date"] = rec["Offer Date"]

\* an Archived record of the brokerage script, which has an offer but no closing date
C3_Witness ==
    /\ Returned
    /\ script = "data"
    /\ EmittedStatus = "Archived"
    /\ rec["Offer Date"] # ""
    /\ rec["Closing Date"] = ""

\* C4 (as claimed): a record emitted as Under Contract, Sold or Archived has its
\* offer date between the listing date and the listing date + 90 days
C4_OfferWithin90OfListing ==
    (Returned /\ EmittedStatus \in {"Under Contract", "Sold", "Archived"}) =>
        /\ ParseDate(rec["Listing Date"]) <= ParseDate(rec["Offer Date"])
        /\ ParseDate(rec["Offer Date"]) <= ParseDate(rec["Listing Date"]) + 90

\* the dates a record emits in "%Y-%m-%d" form, empty ones left out
EmittedDates ==
    {ParseDate(rec[f]) :
        f \in {g \in {"Listing Date", "Created Date", "Joined Date", "Offer Date",
                      "Contract Dates / Contract Agreement Date", "Closing Date",
                      "Contract Dates / Closing Date", "Expiration Date"} :
                    rec[g] # ""}}

\* C5 (as claimed): every emitted date lies within today - 450 .. today + 90 and
\* the listing date is no later than 60 days before the end of that window
C5_DatesInsideWindow ==
    Returned =>
        /\ \A z \in EmittedDates : today - 450 <= z /\ z <= today + 90
        /\ ParseDate(rec["Listing Date"]) <= today + 90 - 60

\* C5 (amended): the listing/created date lies within today - 360 .. today + 30,
\* which is START_DATE .. END_DATE - 60; the derived dates leave the window
\* today - 360 .. today + 90 at its end only: offer/contract date <= today + 120,
\* closing date <= today + 180, expiration date <= today + 210
C5_DatesInsideDerivedBounds ==
    Returned =>
        /\ \A z \in EmittedDates : today - 360 <= z /\ z <= today + 210
        /\ \A f \in {"Listing Date", "Created Date", "Joined Date"} :
              ParseDate(rec[f]) <= today + 30
        /\ \A f \in {"Offer Date", "Contract Dates / Contract Agreement Date"} :
              rec[f] # "" => ParseDate(rec[f]) <= today + 120
        /\ \A f \in {"Closing Date", "Contract Dates / Closing Date"} :
              rec[f] # "" => ParseDate(rec[f]) <= today + 180

\* a record listed on the last day of the sampling range, with the longest time on
\* the market and the longest time to close
C5_Witness ==
    /\ Returned
    /\ ParseDate(rec["Listing Date"]) = today + 30
    /\ ParseDate(rec["Offer Date"]) = today + 120
    /\ ParseDate(rec["Closing Date"]) = today + 180
    /\ ParseDate(rec["Expiration Date"]) = today + 210

\* C6: original price >= price; the original price is the price or the price plus
\* a markup of 5..50 thousand (brokerage) or 10..100 thousand (sold test)
C6_OriginalPriceNotBelow ==
    Returned =>
        LET markup == locals.original_price - locals.price
            lo     == IF script = "data" THEN 5 ELSE 10
            hi     == IF script = "data" THEN 50 ELSE 100
        IN  /\ locals.original_price >= locals.price
            /\ \/ markup = 0
               \/ /\ markup % 1000 = 0
                  /\ lo <= markup \div 1000
                  /\ markup \div 1000 <= hi
            /\ rec["Listing Information / Current Price"] = fmt_money(locals.price * 100)
            /\ rec["Listing Information / Original Price"]
                  = fmt_money(locals.original_price * 100)

\* a psychologically priced record of the brokerage script with the largest markup
C6_Witness ==
    /\ Returned
    /\ script = "data"
    /\ draw.psych
    /\ draw.raise_orig
    /\ locals.original_price = locals.price + 50000

\* C7: the emitted Expiration Date is the emitted Listing Date plus exactly 180
\* days, whatever the status; 2025-01-01 expires on 2025-06-30
C7_ExpirationIs180AfterListing ==
    Returned =>
        /\ rec["Listing Date"] # ""
        /\ rec["Expiration Date"] # ""
        /\ ParseDate(rec["Expiration Date"]) = ParseDate(rec["Listing Date"]) + 180
        /\ rec["Listing Date"] = "2025-01-01" => rec["Expiration Date"] = "2025-06-30"

\* a record whose status was corrected from Sold to Under Contract
C7_Witness ==
    /\ Returned
    /\ draw.status = "Sold"
    /\ EmittedStatus = "Under Contract"
    /\ ParseDate(rec["Expiration Date"]) = ParseDate(rec["Listing Date"]) + 180

\* header list and record count of the running script
headers == IF script = "data" THEN headers_data ELSE headers_soldtest

NUM_RECORDS == IF script = "data" THEN NUM_RECORDS_data ELSE NUM_RECORDS_soldtest

\* position of a column in the header list
Column(name) == CHOOSE c \in 1 .. Len(headers) : headers[c] = name

\* C8: the driver calls generate_record NUM_RECORDS times with the identifiers
\* 300000000 + i, every record has exactly the keys of the header list, and the
\* file holds the header and then one row per record, in generation order, with a
\* cell for every column
C8_OneRowPerRecordInOrder ==
    /\ Len(records) = i
    /\ i <= NUM_RECORDS
    /\ \A k \in 1 .. Len(records) :
          /\ records[k]["Loop ID"] = BaseLoopId + (k - 1)
          /\ DOMAIN records[k] = Range(headers)
    /\ pc # "ValueError"
    /\ pc = "start" => lines = <<>>
    /\ pc = "done" =>
          /\ Len(records) = NUM_RECORDS
          /\ Len(lines) = NUM_RECORDS + 1
          /\ lines[1] = headers
          /\ \A k \in 1 .. NUM_RECORDS :
                /\ Len(lines[k + 1]) = Len(headers)
                /\ lines[k + 1][Column("Loop ID")] = BaseLoopId + (k - 1)
                /\ \A c \in 1 .. Len(headers) :
                      lines[k + 1][c] = records[k][headers[c]]

\* the brokerage script has written its file
C8_Witness ==
    /\ pc = "done"
    /\ script = "data"
    /\ Len(lines) = NUM_RECORDS_data + 1
    /\ lines[Len(lines)][Column("Loop ID")] = BaseLoopId + NUM_RECORDS_data - 1

\* C9 (as claimed): only a record sampled Sold has its status corrected; a record
\* sampled Archived, Under Contract or Active Listing(s) keeps its sampled status
C9_OnlySoldCorrected ==
    (Returned /\ draw.status # "Sold") => EmittedStatus = draw.status

\* C9 (amended): a record sampled Under Contract or Active Listing(s) keeps its
\* sampled status in both scripts; a record sampled Archived keeps it in the
\* brokerage script, and in the sold-test script is emitted as Under Contract
\* exactly when its computed closing date is after today
C9_CorrectionBySampledStatus ==
    Returned =>
        /\ draw.status \in {"Under Contract", "Active Listing", "Active Listings"} =>
              EmittedStatus = draw.status
        /\ (script = "data" /\ draw.status = "Archived") => EmittedStatus = "Archived"
        /\ (script = "soldtest" /\ draw.status = "Archived") =>
              EmittedStatus = IF ComputedClosing > today THEN "Under Contract"
                              ELSE "Archived"

\* a record of the sold-test script sampled Archived and emitted as Under Contract
C9_Witness ==
    /\ Returned
    /\ script = "soldtest"
    /\ draw.status = "Archived"
    /\ EmittedStatus = "Under Contract"

\* C10 (as claimed): in the sold-test script a record emitted as Under Contract or
\* Active Listing closes within today + 15 .. today + 85 and has its offer date 45
\* days before its closing date
C10_EmittedPipelineClosesSoon ==
    (Returned /\ script = "soldtest"
        /\ EmittedStatus \in {"Under Contract", "Active Listing"}) =>
        /\ today + 15 <= ParseDate(rec["Closing Date"])
        /\ ParseDate(rec["Closing Date"]) <= today + 85
        /\ ParseDate(rec["Offer Date"]) = ParseDate(rec["Closing Date"]) - 45

\* C10 (amended): in the sold-test script a record sampled as Under Contract or
\* Active Listing closes within today + 15 .. today + 85 and has its offer date 45
\* days before its closing date
C10_SampledPipelineClosesSoon ==
    (Returned /\ script = "soldtest"
        /\ draw.status \in {"Under Contract", "Active Listing"}) =>
        /\ today + 15 <= ParseDate(rec["Closing Date"])
        /\ ParseDate(rec["Closing Date"]) <= today + 85
        /\ ParseDate(rec["Offer Date"]) = ParseDate(rec["Closing Date"]) - 45

\* a record sampled Under Contract that closes on the last day of the future window
C10_Witness ==
    /\ Returned
    /\ script = "soldtest"
    /\ draw.status = "Under Contract"
    /\ ParseDate(rec["Closing Date"]) = today + 85
    /\ ParseDate(rec["Offer Date"]) = today + 40

\* C11 (as claimed): in the sold-test script the address fields of a record carry
\* one zip code: 'Address' and 'Full Address' are Address 1, then Address 2, and
\* Address 2 is the city, the state and the 'Zip/Postal Code' field
C11_OneZipPerRecord ==
    (Returned /\ script = "soldtest") =>
        /\ rec["Property Address / Full Address"] = rec["Address"]
        /\ rec["Address"] =
              rec["Property Address / Street Number, Street Name, Unit Number (Address 1)"]
                  \o ", "
                  \o rec["Property Address / City, State/Prov, Zip/Postal Code (Address 2)"]
        /\ rec["Property Address / City, State/Prov, Zip/Postal Code (Address 2)"] =
              rec["Property Address / City"] \o ", "
                  \o rec["Property Address / State/Prov"] \o " "
                  \o rec["Property Address / Zip/Postal Code"]

====
